---- MODULE Spec2Model ----
(***************************************************************************)
(* Personal memory store (memory_server.py): the key-resolution engine of  *)
(* PersonalMemoryStorage over the personal_info tree, the structural       *)
(* migration run by the constructor, the goal list, and whole-document     *)
(* persistence.                                                            *)
(*                                                                         *)
(* Python strings are sequences of one-character strings, so that          *)
(* startswith, slicing, split, lower and substring tests are computed.     *)
(* A Python dict is an insertion-ordered sequence of (key, val) items.     *)
(***************************************************************************)
EXTENDS Integers, Sequences, FiniteSets, TLC

VARIABLES
  memory_data,  \* self.memory_data: the in-memory document
  disk,         \* the file at self.storage_file
  clock,        \* datetime.now(), advanced by every save
  loaded,       \* history: the personal_info the last constructor read, before migration
  last          \* history: the last call and what it returned

vars == <<memory_data, disk, clock, loaded, last>>

(***************************************************************************)
(* Bounds                                                                  *)
(***************************************************************************)
\* number of saves (file rewrites) explored
MaxClock == 2

\* goals in the list
MaxGoals == 2

(***************************************************************************)
(* Strings                                                                 *)
(***************************************************************************)
UpperCase == <<"A","B","C","D","E","F","G","H","I","J","K","L","M",
               "N","O","P","Q","R","S","T","U","V","W","X","Y","Z">>

LowerCase == <<"a","b","c","d","e","f","g","h","i","j","k","l","m",
               "n","o","p","q","r","s","t","u","v","w","x","y","z">>

\* str.lower()
Lower(s) ==
  [i \in 1..Len(s) |->
     IF \E j \in 1..Len(UpperCase) : UpperCase[j] = s[i]
     THEN LowerCase[CHOOSE j \in 1..Len(UpperCase) : UpperCase[j] = s[i]]
     ELSE s[i]]

\* s.startswith(p)
StartsWith(s, p) == Len(s) >= Len(p) /\ SubSeq(s, 1, Len(p)) = p

\* s[n:]
DropPrefix(s, n) == SubSeq(s, n + 1, Len(s))

\* p in s (substring)
Within(p, s) == \E i \in 1..(Len(s) - Len(p) + 1) : SubSeq(s, i, i + Len(p) - 1) = p

\* "." in s
HasDot(s) == \E i \in 1..Len(s) : s[i] = "."

\* s.split(".")
RECURSIVE Split(_)
Split(s) ==
  IF ~HasDot(s) THEN <<s>>
  ELSE LET i == CHOOSE j \in 1..Len(s) : s[j] = "." /\ \A h \in 1..(j - 1) : s[h] # "."
       IN <<SubSeq(s, 1, i - 1)>> \o Split(DropPrefix(s, i))

\* any(pattern in s for pattern in patterns)
AnyWithin(patterns, s) == \E i \in 1..Len(patterns) : Within(patterns[i], s)

(***************************************************************************)
(* Values: a leaf, None, or a dict (ordered items)                         *)
(***************************************************************************)
Leaf(x) == [t |-> "leaf", v |-> x, items |-> <<>>]

Dict(its) == [t |-> "dict", v |-> "", items |-> its]

EmptyDict == Dict(<<>>)

NoneValue == [t |-> "none", v |-> "", items |-> <<>>]

\* isinstance(n, dict)
IsDict(n) == n.t = "dict"

\* k in d
Has(d, k) == \E i \in 1..Len(d.items) : d.items[i].key = k

IndexOf(d, k) == CHOOSE i \in 1..Len(d.items) : d.items[i].key = k

\* d[k]
Get(d, k) == d.items[IndexOf(d, k)].val

\* d[k] = x : an existing key keeps its place, a new key goes last
Put(d, k, x) ==
  IF Has(d, k)
  THEN [d EXCEPT !.items[IndexOf(d, k)] = [key |-> k, val |-> x]]
  ELSE [d EXCEPT !.items = Append(@, [key |-> k, val |-> x])]

\* del d[k] / d.pop(k)
Del(d, k) ==
  LET keep == {i \in 1..Len(d.items) : d.items[i].key # k}
      F[i \in 0..Len(d.items)] ==
        IF i = 0 THEN <<>>
        ELSE IF i \in keep THEN Append(F[i - 1], d.items[i]) ELSE F[i - 1]
  IN [d EXCEPT !.items = F[Len(d.items)]]

\* set(d.keys())
KeySet(d) == {d.items[i].key : i \in 1..Len(d.items)}

\* bool(d) of a dict
NonEmpty(d) == Len(d.items) > 0

(***************************************************************************)
(* _get_hierarchical_value                                                 *)
(***************************************************************************)
NotFound == [value |-> NoneValue, found |-> FALSE]

\* mutant: a walk that stops early returns the node it stopped at
RECURSIVE Traverse_deepest(_, _)
Traverse_deepest(current_dict, parts) ==
  IF parts = <<>> THEN [value |-> current_dict, found |-> TRUE]
  ELSE IF IsDict(current_dict) /\ Has(current_dict, Head(parts))
       THEN Traverse_deepest(Get(current_dict, Head(parts)), Tail(parts))
       ELSE [value |-> current_dict, found |-> TRUE]

\* the for/else walk over parts: every part must be a key of a dict
RECURSIVE Traverse(_, _)
Traverse(current_dict, parts) ==
  IF parts = <<>> THEN [value |-> current_dict, found |-> TRUE]
  ELSE IF IsDict(current_dict) /\ Has(current_dict, Head(parts))
       THEN Traverse(Get(current_dict, Head(parts)), Tail(parts))
       ELSE NotFound

\* the stored keys of one category that the legacy test accepts for key
PrefixHits(category_name, category_data, key) ==
  {i \in 1..Len(category_data.items) :
     \/ key = category_name \o <<"_">> \o category_data.items[i].key
     \/ key = <<"b","o","o","k","_">> \o category_data.items[i].key}

\* one category of the legacy scan
LegacyInCategory(category_name, category_data, key) ==
  IF ~IsDict(category_data) THEN NotFound
  ELSE IF Has(category_data, key) THEN [value |-> Get(category_data, key), found |-> TRUE]
  ELSE LET hits == PrefixHits(category_name, category_data, key)
       IN IF hits = {} THEN NotFound
          ELSE LET i == CHOOSE h \in hits : \A g \in hits : h <= g
               IN [value |-> category_data.items[i].val, found |-> TRUE]

\* the scan of all categories in dict order: the first hit is returned
LegacyScan(pinfo, key) ==
  LET hits == {i \in 1..Len(pinfo.items) :
                 LegacyInCategory(pinfo.items[i].key, pinfo.items[i].val, key).found}
  IN IF hits = {} THEN NotFound
     ELSE LET i == CHOOSE h \in hits : \A g \in hits : h <= g
          IN LegacyInCategory(pinfo.items[i].key, pinfo.items[i].val, key)

DottedLookup(pinfo, key) ==
  IF HasDot(key) THEN Traverse(pinfo, Split(key)) ELSE NotFound

\* the later rule is consulted only when the earlier one found nothing
FirstFound(first, second) == IF first.found THEN first ELSE second

_get_hierarchical_value(pinfo, key) ==
  IF Has(pinfo, key) THEN [value |-> Get(pinfo, key), found |-> TRUE]
  ELSE FirstFound(DottedLookup(pinfo, key), LegacyScan(pinfo, key))

ItemResult(r) == [kind |-> "item", value |-> r.value, found |-> r.found]

\* get_personal_info: an empty (falsy) key returns the whole tree, with no
\* "found" entry in the result (kind "all")
get_personal_info(md, key) ==
  IF key # <<>>
  THEN ItemResult(_get_hierarchical_value(md.personal_info, key))
  ELSE [kind |-> "all", value |-> md.personal_info, found |-> FALSE]

(***************************************************************************)
(* _suggest_category_for_key                                               *)
(***************************************************************************)
\* None
NoCategory == <<>>

BasicPatterns == <<<<"e","m","a","i","l">>, <<"p","h","o","n","e">>, <<"a","d","d","r","e","s","s">>, <<"c","o","n","t","a","c","t">>, <<"l","o","c","a","t","i","o","n">>>>

CareerPatterns == <<<<"j","o","b">>, <<"w","o","r","k">>, <<"c","a","r","e","e","r">>, <<"r","o","l","e">>, <<"p","o","s","i","t","i","o","n">>, <<"c","o","m","p","a","n","y">>>>

BookPatterns == <<<<"p","u","b","l","i","c","a","t","i","o","n">>, <<"i","s","b","n">>, <<"p","u","b","l","i","s","h","e","r">>>>

InnovationPatterns == <<<<"p","r","o","j","e","c","t">>, <<"i","n","n","o","v","a","t","i","o","n">>, <<"t","o","o","l">>, <<"f","r","a","m","e","w","o","r","k">>, <<"c","a","n","v","a","s">>>>

CommunicationPatterns == <<<<"c","o","m","m","u","n","i","c","a","t","i","o","n">>, <<"s","t","y","l","e">>, <<"p","r","e","f","e","r","e","n","c","e">>, <<"p","o","d","c","a","s","t">>, <<"s","p","e","a","k","i","n","g">>>>

ValuesPatterns == <<<<"v","a","l","u","e">>, <<"i","n","s","i","g","h","t">>, <<"p","r","i","n","c","i","p","l","e">>, <<"b","e","l","i","e","f">>, <<"m","e","t","h","o","d">>>>

\* mutant: the career test comes before the basic test
suggest_career_first(key) ==
  LET key_lower == Lower(key)
  IN IF AnyWithin(CareerPatterns, key_lower) THEN <<"c","a","r","e","e","r">>
     ELSE IF AnyWithin(BasicPatterns, key_lower) THEN <<"b","a","s","i","c">>
     ELSE IF StartsWith(key_lower, <<"b","o","o","k","_">>) \/ AnyWithin(BookPatterns, key_lower) THEN <<"b","o","o","k">>
     ELSE IF AnyWithin(InnovationPatterns, key_lower) THEN <<"i","n","n","o","v","a","t","i","o","n","s">>
     ELSE IF AnyWithin(CommunicationPatterns, key_lower) THEN <<"c","o","m","m","u","n","i","c","a","t","i","o","n">>
     ELSE IF AnyWithin(ValuesPatterns, key_lower) THEN <<"v","a","l","u","e","s","_","i","n","s","i","g","h","t","s">>
     ELSE NoCategory

_suggest_category_for_key(key) ==
  LET key_lower == Lower(key)
  IN IF AnyWithin(BasicPatterns, key_lower) THEN <<"b","a","s","i","c">>
     ELSE IF AnyWithin(CareerPatterns, key_lower) THEN <<"c","a","r","e","e","r">>
     ELSE IF StartsWith(key_lower, <<"b","o","o","k","_">>) \/ AnyWithin(BookPatterns, key_lower) THEN <<"b","o","o","k">>
     ELSE IF AnyWithin(InnovationPatterns, key_lower) THEN <<"i","n","n","o","v","a","t","i","o","n","s">>
     ELSE IF AnyWithin(CommunicationPatterns, key_lower) THEN <<"c","o","m","m","u","n","i","c","a","t","i","o","n">>
     ELSE IF AnyWithin(ValuesPatterns, key_lower) THEN <<"v","a","l","u","e","s","_","i","n","s","i","g","h","t","s">>
     ELSE NoCategory

(***************************************************************************)
(* _set_hierarchical_value                                                 *)
(***************************************************************************)
\* mutant: every intermediate part is set to a new dict, also when it held one
RECURSIVE SetPath_resets(_, _, _)
SetPath_resets(current_dict, parts, value) ==
  IF Len(parts) = 1 THEN Put(current_dict, parts[1], value)
  ELSE Put(current_dict, Head(parts), SetPath_resets(EmptyDict, Tail(parts), value))

\* the dotted branch: intermediate parts become dicts, the last part is set
RECURSIVE SetPath(_, _, _)
SetPath(current_dict, parts, value) ==
  IF Len(parts) = 1 THEN Put(current_dict, parts[1], value)
  ELSE LET part == Head(parts)
           child == IF Has(current_dict, part) /\ IsDict(Get(current_dict, part))
                    THEN Get(current_dict, part)
                    ELSE EmptyDict
       IN Put(current_dict, part, SetPath(child, Tail(parts), value))

legacy_mappings ==
  << [key |-> <<"n","a","m","e">>,               path |-> <<"b","a","s","i","c",".","n","a","m","e">>],
     [key |-> <<"w","o","o","n","p","l","a","a","t","s">>,         path |-> <<"b","a","s","i","c",".","w","o","o","n","p","l","a","a","t","s">>],
     [key |-> <<"l","i","n","k","e","d","i","n","_","p","r","o","f","i","l","e">>,   path |-> <<"b","a","s","i","c",".","l","i","n","k","e","d","i","n","_","p","r","o","f","i","l","e">>],
     [key |-> <<"e","m","a","i","l","_","i","n","f","o","s","u","p","p","o","r","t">>,  path |-> <<"b","a","s","i","c",".","e","m","a","i","l","_","i","n","f","o","s","u","p","p","o","r","t">>],
     [key |-> <<"e","m","a","i","l","_","a","i","g","e","n","c","y">>,      path |-> <<"b","a","s","i","c",".","e","m","a","i","l","_","a","i","g","e","n","c","y">>],
     [key |-> <<"j","o","b","_","t","i","t","l","e">>,          path |-> <<"c","a","r","e","e","r",".","j","o","b","_","t","i","t","l","e">>],
     [key |-> <<"f","u","l","l","_","j","o","b","_","r","o","l","e","s">>,     path |-> <<"c","a","r","e","e","r",".","f","u","l","l","_","j","o","b","_","r","o","l","e","s">>],
     [key |-> <<"c","a","r","e","e","r","_","b","a","c","k","g","r","o","u","n","d">>,  path |-> <<"c","a","r","e","e","r",".","c","a","r","e","e","r","_","b","a","c","k","g","r","o","u","n","d">>],
     [key |-> <<"e","x","p","e","r","t","i","s","e">>,          path |-> <<"c","a","r","e","e","r",".","e","x","p","e","r","t","i","s","e">>],
     [key |-> <<"e","x","p","e","r","t","i","s","e","_","a","r","e","a","s">>,    path |-> <<"c","a","r","e","e","r",".","e","x","p","e","r","t","i","s","e","_","a","r","e","a","s">>],
     [key |-> <<"r","e","s","e","a","r","c","h","_","i","n","t","e","r","e","s","t","s">>, path |-> <<"c","a","r","e","e","r",".","r","e","s","e","a","r","c","h","_","i","n","t","e","r","e","s","t","s">>] >>

InLegacyMappings(key) == \E i \in 1..Len(legacy_mappings) : legacy_mappings[i].key = key

LegacyPath(key) ==
  legacy_mappings[CHOOSE i \in 1..Len(legacy_mappings) : legacy_mappings[i].key = key].path

\* mutant: a misc entry that is not a dict is left as it is
SetMisc_keeps_leaf(pinfo, key, value) ==
  IF Has(pinfo, <<"m","i","s","c">>) /\ ~IsDict(Get(pinfo, <<"m","i","s","c">>))
  THEN pinfo
  ELSE Put(pinfo, <<"m","i","s","c">>,
           Put(IF Has(pinfo, <<"m","i","s","c">>) THEN Get(pinfo, <<"m","i","s","c">>) ELSE EmptyDict, key, value))

\* the misc branch: misc is created, or replaced when it is not a dict
SetMisc(pinfo, key, value) ==
  LET misc == IF Has(pinfo, <<"m","i","s","c">>) /\ IsDict(Get(pinfo, <<"m","i","s","c">>))
              THEN Get(pinfo, <<"m","i","s","c">>)
              ELSE EmptyDict
  IN Put(pinfo, <<"m","i","s","c">>, Put(misc, key, value))

RECURSIVE _set_hierarchical_value(_, _, _)

\* the last two branches: a suggested category, else misc
SetUnmapped(pinfo, key, value, suggested_category) ==
  IF suggested_category # NoCategory
  THEN _set_hierarchical_value(pinfo, suggested_category \o <<".">> \o key, value)
  ELSE [personal_info |-> SetMisc(pinfo, key, value), success |-> TRUE]

\* returns the new personal_info and the success flag
_set_hierarchical_value(pinfo, key, value) ==
  IF HasDot(key)
  THEN [personal_info |-> SetPath(pinfo, Split(key), value), success |-> TRUE]
  ELSE IF StartsWith(key, <<"b","o","o","k","_">>)
  THEN _set_hierarchical_value(pinfo, <<"b","o","o","k",".">> \o DropPrefix(key, 5), value)
  ELSE IF StartsWith(key, <<"f","o","r","m","u","l","a","_","a","i","_">>)
  THEN _set_hierarchical_value(pinfo, <<"i","n","n","o","v","a","t","i","o","n","s",".","f","o","r","m","u","l","a","_","a","i",".">> \o DropPrefix(key, 11), value)
  ELSE IF StartsWith(key, <<"a","i","_","e","x","p","e","r","i","m","e","n","t","_","c","a","n","v","a","s","_">>)
  THEN _set_hierarchical_value(pinfo, <<"i","n","n","o","v","a","t","i","o","n","s",".","a","i","_","e","x","p","e","r","i","m","e","n","t","_","c","a","n","v","a","s",".">> \o DropPrefix(key, 21),
                               value)
  ELSE IF InLegacyMappings(key)
  THEN _set_hierarchical_value(pinfo, LegacyPath(key), value)
  ELSE SetUnmapped(pinfo, key, value, _suggest_category_for_key(key))

(***************************************************************************)
(* The document, _initialize_memory, _load_memory, _save_memory            *)
(***************************************************************************)
\* The fields the modelled operations read or write.  The source's document has
\* no pending_categorization field: the field is the queue of the specified
\* pending-categorization workflow, empty for a document that has none.
_initialize_memory(now) ==
  [personal_info |-> EmptyDict, preferences |-> EmptyDict, memories |-> <<>>,
   relationships |-> EmptyDict, goals |-> <<>>, pending_categorization |-> <<>>,
   created_at |-> now, last_updated |-> now]

AbsentFile == [state |-> "absent", doc |-> _initialize_memory(0)]

CorruptFile == [state |-> "corrupt", doc |-> _initialize_memory(0)]

File(doc) == [state |-> "ok", doc |-> doc]

\* a missing or malformed file gives a fresh document
_load_memory(file, now) ==
  IF file.state = "ok" THEN file.doc ELSE _initialize_memory(now)

\* last_updated is stamped, then the whole document is written
_save_memory(md, now) == [md EXCEPT !.last_updated = now]

(***************************************************************************)
(* _migrate_personal_info_structure                                        *)
(***************************************************************************)
hierarchical_categories ==
  {<<"b","a","s","i","c">>, <<"c","a","r","e","e","r">>, <<"b","o","o","k">>, <<"w","o","r","k","_","r","o","l","e","s">>, <<"i","n","n","o","v","a","t","i","o","n","s">>, <<"c","o","m","m","u","n","i","c","a","t","i","o","n">>,
   <<"v","a","l","u","e","s","_","i","n","s","i","g","h","t","s">>}

AlreadyHierarchical(pinfo) ==
  \E i \in 1..Len(pinfo.items) :
     pinfo.items[i].key \in hierarchical_categories /\ IsDict(pinfo.items[i].val)

hierarchical_mapping ==
  << [category |-> <<"b","a","s","i","c">>,
      keys |-> <<<<"n","a","m","e">>, <<"w","o","o","n","p","l","a","a","t","s">>, <<"l","i","n","k","e","d","i","n","_","p","r","o","f","i","l","e">>, <<"e","m","a","i","l","_","i","n","f","o","s","u","p","p","o","r","t">>,
                 <<"e","m","a","i","l","_","a","i","g","e","n","c","y">>>>],
     [category |-> <<"c","a","r","e","e","r">>,
      keys |-> <<<<"j","o","b","_","t","i","t","l","e">>, <<"f","u","l","l","_","j","o","b","_","r","o","l","e","s">>, <<"c","a","r","e","e","r","_","b","a","c","k","g","r","o","u","n","d">>, <<"e","x","p","e","r","t","i","s","e">>,
                 <<"e","x","p","e","r","t","i","s","e","_","a","r","e","a","s">>, <<"r","e","s","e","a","r","c","h","_","i","n","t","e","r","e","s","t","s">>>>],
     [category |-> <<"b","o","o","k">>,
      keys |-> <<<<"b","o","o","k","_","t","i","t","l","e">>, <<"b","o","o","k","_","s","u","b","t","i","t","l","e">>, <<"b","o","o","k","_","i","s","b","n">>, <<"b","o","o","k","_","p","u","b","l","i","s","h","e","r">>, <<"b","o","o","k","_","y","e","a","r">>,
                 <<"b","o","o","k","_","e","d","i","t","i","o","n">>, <<"b","o","o","k","_","f","o","r","m","a","t">>, <<"b","o","o","k","_","l","a","n","g","u","a","g","e">>, <<"b","o","o","k","_","c","a","t","e","g","o","r","y">>,
                 <<"b","o","o","k","_","s","u","m","m","a","r","y">>, <<"b","o","o","k","_","l","e","a","r","n","i","n","g","_","o","u","t","c","o","m","e","s">>, <<"b","o","o","k","_","k","e","y","w","o","r","d","s">>,
                 <<"b","o","o","k","_","m","a","n","a","g","e","m","e","n","t","b","o","e","k","_","u","r","l">>, <<"b","o","o","k","_","p","u","b","l","i","s","h","e","r","_","f","u","l","l">>, <<"b","o","o","k","_","b","o","o","m","_","u","r","l">>,
                 <<"b","o","o","k","_","t","o","p","i","c","s","_","d","e","t","a","i","l","e","d">>>>],
     [category |-> <<"w","o","r","k","_","r","o","l","e","s">>,
      keys |-> <<<<"a","i","g","e","n","c","y","_","w","o","r","k">>, <<"r","e","s","e","a","r","c","h","_","c","e","n","t","e","r","_","f","o","c","u","s">>, <<"d","n","b","_","c","o","a","c","h","i","n","g","_","r","o","l","e">>,
                 <<"e","d","i","h","_","a","d","v","i","s","o","r","y","_","r","o","l","e">>, <<"a","i","_","g","o","v","e","r","n","a","n","c","e","_","b","o","a","r","d","_","r","o","l","e">>, <<"r","a","i","s","e","_","p","r","o","g","r","a","m","_","r","o","l","e">>>>],
     [category |-> <<"i","n","n","o","v","a","t","i","o","n","s">>,
      keys |-> <<<<"f","o","r","m","u","l","a","_","a","i","_","c","r","e","a","t","o","r">>, <<"f","o","r","m","u","l","a","_","a","i","_","c","o","n","c","e","p","t">>, <<"f","o","r","m","u","l","a","_","a","i","_","g","o","a","l","s">>,
                 <<"f","o","r","m","u","l","a","_","a","i","_","m","e","c","h","a","n","i","c","s">>, <<"f","o","r","m","u","l","a","_","a","i","_","d","r","s","_","p","a","c","k","a","g","e">>,
                 <<"f","o","r","m","u","l","a","_","a","i","_","t","a","r","g","e","t","_","a","u","d","i","e","n","c","e">>, <<"a","i","_","e","x","p","e","r","i","m","e","n","t","_","c","a","n","v","a","s","_","c","r","e","a","t","o","r">>,
                 <<"a","i","_","e","x","p","e","r","i","m","e","n","t","_","c","a","n","v","a","s","_","s","t","r","u","c","t","u","r","e">>, <<"a","i","_","i","d","e","a","t","i","o","n","_","w","o","r","k","s","h","o","p","_","c","o","n","c","e","p","t">>,
                 <<"a","i","_","d","e","s","i","g","n","_","w","e","e","k","_","p","r","o","c","e","s","s">>, <<"w","o","r","k","s","h","o","p","_","c","l","i","e","n","t","_","t","e","s","t","i","m","o","n","i","a","l","s">>>>],
     [category |-> <<"c","o","m","m","u","n","i","c","a","t","i","o","n">>,
      keys |-> <<<<"p","o","d","c","a","s","t","_","d","e","t","a","i","l","s">>, <<"w","r","i","t","i","n","g","_","s","t","y","l","e">>, <<"c","o","m","m","u","n","i","c","a","t","i","o","n","_","p","r","e","f","e","r","e","n","c","e","s">>,
                 <<"c","r","i","t","i","c","a","l","_","a","t","t","i","t","u","d","e","s">>, <<"p","o","s","i","t","i","v","e","_","a","t","t","i","t","u","d","e","s">>, <<"p","e","r","s","o","n","a","l","_","p","r","o","j","e","c","t","s">>>>],
     [category |-> <<"v","a","l","u","e","s","_","i","n","s","i","g","h","t","s">>,
      keys |-> <<<<"c","o","r","e","_","v","a","l","u","e","s">>, <<"k","e","y","_","i","n","s","i","g","h","t","s">>, <<"m","e","t","h","o","d","s","_","f","r","a","m","e","w","o","r","k","s">>>>] >>

\* the inner loop: the keys of one category that personal_info has, book_ stripped
CategoryData(keys, pinfo) ==
  LET F[i \in 0..Len(keys)] ==
        IF i = 0 THEN EmptyDict
        ELSE IF Has(pinfo, keys[i])
             THEN Put(F[i - 1],
                      IF StartsWith(keys[i], <<"b","o","o","k","_">>) THEN DropPrefix(keys[i], 5) ELSE keys[i],
                      Get(pinfo, keys[i]))
             ELSE F[i - 1]
  IN F[Len(keys)]

\* if category_data: new_structure[category] = category_data
PutIfAny(structure, category, category_data) ==
  IF NonEmpty(category_data) THEN Put(structure, category, category_data) ELSE structure

\* the outer loop over the mapping
MapCategories(mapping, pinfo) ==
  LET F[i \in 0..Len(mapping)] ==
        IF i = 0 THEN EmptyDict
        ELSE PutIfAny(F[i - 1], mapping[i].category, CategoryData(mapping[i].keys, pinfo))
  IN F[Len(mapping)]

MappedStructure(pinfo) == MapCategories(hierarchical_mapping, pinfo)

KeysOfMapping(mapping) ==
  UNION {{mapping[i].keys[j] : j \in 1..Len(mapping[i].keys)} : i \in 1..Len(mapping)}

migrated_keys(pinfo) == KeySet(pinfo) \cap KeysOfMapping(hierarchical_mapping)

workshop_keys ==
  <<<<"a","i","_","i","d","e","a","t","i","o","n","_","w","o","r","k","s","h","o","p","_","c","o","n","c","e","p","t">>, <<"a","i","_","d","e","s","i","g","n","_","w","e","e","k","_","p","r","o","c","e","s","s">>, <<"w","o","r","k","s","h","o","p","_","c","l","i","e","n","t","_","t","e","s","t","i","m","o","n","i","a","l","s">>>>

\* one round of the grouping loop: p is the three dicts so far
GroupKey(p, key, val) ==
  IF StartsWith(key, <<"f","o","r","m","u","l","a","_","a","i","_">>)
  THEN [p EXCEPT !.formula_ai_data = Put(@, DropPrefix(key, 11), val),
                 !.innovations_data = Del(@, key)]
  ELSE IF StartsWith(key, <<"a","i","_","e","x","p","e","r","i","m","e","n","t","_","c","a","n","v","a","s","_">>)
  THEN [p EXCEPT !.ai_canvas_data = Put(@, DropPrefix(key, 21), val),
                 !.innovations_data = Del(@, key)]
  ELSE IF key = <<"a","i","_","e","x","p","e","r","i","m","e","n","t","_","c","a","n","v","a","s","_","c","r","e","a","t","o","r">>
  THEN [p EXCEPT !.ai_canvas_data = Put(@, <<"c","r","e","a","t","o","r">>, val),
                 !.innovations_data = Del(@, key)]
  ELSE IF key = <<"f","o","r","m","u","l","a","_","a","i","_","c","r","e","a","t","o","r">>
  THEN [p EXCEPT !.formula_ai_data = Put(@, <<"c","r","e","a","t","o","r">>, val),
                 !.innovations_data = Del(@, key)]
  ELSE p

\* the grouping loop over list(innovations_data.keys())
GroupPrefixed(innovations_data) ==
  LET F[i \in 0..Len(innovations_data.items)] ==
        IF i = 0
        THEN [innovations_data |-> innovations_data, formula_ai_data |-> EmptyDict,
              ai_canvas_data |-> EmptyDict]
        ELSE GroupKey(F[i - 1], innovations_data.items[i].key, innovations_data.items[i].val)
  IN F[Len(innovations_data.items)]

WorkshopKey(p, key) ==
  IF Has(p.innovations_data, key)
  THEN [p EXCEPT !.ai_canvas_data = Put(@, key, Get(p.innovations_data, key)),
                 !.innovations_data = Del(@, key)]
  ELSE p

\* the loop that moves the workshop/design items into ai_canvas_data
GroupWorkshop(grouped) ==
  LET F[i \in 0..Len(workshop_keys)] ==
        IF i = 0 THEN grouped ELSE WorkshopKey(F[i - 1], workshop_keys[i])
  IN F[Len(workshop_keys)]

\* new_structure["innovations"]["formula_ai"] / ["ai_experiment_canvas"]: written into
\* innovations_data, which is new_structure["innovations"] itself (one object)
AddSubcategories(g) ==
  PutIfAny(PutIfAny(g.innovations_data, <<"f","o","r","m","u","l","a","_","a","i">>, g.formula_ai_data),
           <<"a","i","_","e","x","p","e","r","i","m","e","n","t","_","c","a","n","v","a","s">>, g.ai_canvas_data)

\* the "remove empty innovations" step: the comprehension keeps the keys of
\* new_structure["innovations"] that are not in innovations_data, the same object
RemoveOwnKeys(innovations_data) ==
  IF (~NonEmpty(innovations_data) /\ Has(innovations_data, <<"f","o","r","m","u","l","a","_","a","i">>))
     \/ Has(innovations_data, <<"a","i","_","e","x","p","e","r","i","m","e","n","t","_","c","a","n","v","a","s">>)
  THEN Dict(SelectSeq(innovations_data.items,
                      LAMBDA it : it.key \notin KeySet(innovations_data)))
  ELSE innovations_data

InnovationsSpecialCases(innovations) ==
  RemoveOwnKeys(AddSubcategories(GroupWorkshop(GroupPrefixed(innovations))))

GroupInnovations(structure) ==
  IF Has(structure, <<"i","n","n","o","v","a","t","i","o","n","s">>)
  THEN Put(structure, <<"i","n","n","o","v","a","t","i","o","n","s">>, InnovationsSpecialCases(Get(structure, <<"i","n","n","o","v","a","t","i","o","n","s">>)))
  ELSE structure

remaining_keys(pinfo) == KeySet(pinfo) \ migrated_keys(pinfo)

\* the iteration orders of a Python set of strings: any order
Orders(S) ==
  {o \in [1..Cardinality(S) -> S] : \A i, j \in 1..Cardinality(S) : o[i] = o[j] => i = j}

\* misc_data, built in the iteration order of the set remaining_keys
MiscData(pinfo, order) ==
  Dict([i \in 1..Len(order) |-> [key |-> order[i], val |-> Get(pinfo, order[i])]])

AddMisc(structure, pinfo, order) ==
  IF remaining_keys(pinfo) # {}
  THEN Put(structure, <<"m","i","s","c">>, MiscData(pinfo, order))
  ELSE structure

new_structure(pinfo, order) ==
  AddMisc(GroupInnovations(MappedStructure(pinfo)), pinfo, order)

\* if new_structure: replace personal_info and save
ReplaceIfAny(pinfo, structure) ==
  IF NonEmpty(structure)
  THEN [personal_info |-> structure, saved |-> TRUE]
  ELSE [personal_info |-> pinfo, saved |-> FALSE]

\* returns the personal_info after the pass and whether it was replaced and saved;
\* order is the iteration order of remaining_keys
_migrate_personal_info_structure(pinfo, order) ==
  IF AlreadyHierarchical(pinfo) THEN [personal_info |-> pinfo, saved |-> FALSE]
  ELSE ReplaceIfAny(pinfo, new_structure(pinfo, order))

(***************************************************************************)
(* __init__: load, then migrate                                            *)
(***************************************************************************)
Ret(op, key, dest, value, status, out, n, m) ==
  [op |-> op, key |-> key, dest |-> dest, value |-> value, status |-> status,
   out |-> out, n |-> n, m |-> m]

Constructed(file, now, md, mig) ==
  [memory_data |-> IF mig.saved
                   THEN _save_memory([md EXCEPT !.personal_info = mig.personal_info], now + 1)
                   ELSE md,
   disk |-> IF mig.saved
            THEN File(_save_memory([md EXCEPT !.personal_info = mig.personal_info], now + 1))
            ELSE file,
   clock |-> IF mig.saved THEN now + 1 ELSE now,
   loaded |-> md.personal_info,
   last |-> Ret("construct", <<>>, <<>>, NoneValue,
                IF mig.saved THEN "migrated" ELSE "no-op", NoneValue, 0, 0)]

Migrated(file, now, md, order) ==
  Constructed(file, now, md, _migrate_personal_info_structure(md.personal_info, order))

\* the state a constructor leaves, given the file, the time and the set order
Construct(file, now, order) == Migrated(file, now, _load_memory(file, now), order)

\* the set order is read only when the pass goes on to build misc_data
OrdersRead(pinfo) ==
  IF AlreadyHierarchical(pinfo) THEN {<<>>} ELSE Orders(remaining_keys(pinfo))

ConstructOrders(file, now) == OrdersRead(_load_memory(file, now).personal_info)

Becomes(c) ==
  /\ memory_data' = c.memory_data
  /\ disk' = c.disk
  /\ clock' = c.clock
  /\ loaded' = c.loaded
  /\ last' = c.last

\* a new PersonalMemoryStorage over the same file
Restart ==
  \E order \in ConstructOrders(disk, clock) :
     \E c \in {Construct(disk, clock, order)} : c.clock <= MaxClock /\ Becomes(c)

(***************************************************************************)
(* store_personal_info                                                     *)
(***************************************************************************)
\* mutant: the document is written before it is stamped
Commit_writes_before_stamp(md, ret) ==
  /\ clock < MaxClock
  /\ memory_data' = _save_memory(md, clock + 1)
  /\ disk' = File(md)
  /\ clock' = clock + 1
  /\ last' = ret
  /\ UNCHANGED loaded

\* _save_memory after a mutation: the document is stamped and written whole
Commit(md, ret) ==
  /\ clock < MaxClock
  /\ memory_data' = _save_memory(md, clock + 1)
  /\ disk' = File(_save_memory(md, clock + 1))
  /\ clock' = clock + 1
  /\ last' = ret
  /\ UNCHANGED loaded

\* a call that returns without mutating or saving
Reject(ret) ==
  /\ last' = ret
  /\ UNCHANGED <<memory_data, disk, clock, loaded>>

StoreOutcome(key, value, r) ==
  IF r.success
  THEN Commit([memory_data EXCEPT !.personal_info = r.personal_info],
              Ret("store_personal_info", key, <<>>, value, "success", value, 0, 0))
  ELSE Reject(Ret("store_personal_info", key, <<>>, value, "error", NoneValue, 0, 0))

StorePersonalInfo(key, value) ==
  StoreOutcome(key, value, _set_hierarchical_value(memory_data.personal_info, key, value))

(***************************************************************************)
(* move_personal_info_item: read the value at the source path, delete the  *)
(* source leaf, write the value at the destination path                    *)
(***************************************************************************)
\* del of the last part of a path that Traverse found
RECURSIVE DelPath(_, _)
DelPath(current_dict, parts) ==
  IF Len(parts) = 1 THEN Del(current_dict, parts[1])
  ELSE Put(current_dict, Head(parts), DelPath(Get(current_dict, Head(parts)), Tail(parts)))

\* mutant: the value is written at the destination and the source is kept
MoveFound_copies(md, source, dest, src) ==
  IF ~src.found
  THEN [memory_data |-> md, status |-> "error", value |-> NoneValue]
  ELSE [memory_data |->
          [md EXCEPT !.personal_info = SetPath(md.personal_info, Split(dest), src.value)],
        status |-> "success", value |-> src.value]

MoveFound(md, source, dest, src) ==
  IF ~src.found
  THEN [memory_data |-> md, status |-> "error", value |-> NoneValue]
  ELSE [memory_data |->
          [md EXCEPT !.personal_info =
             SetPath(DelPath(md.personal_info, Split(source)), Split(dest), src.value)],
        status |-> "success", value |-> src.value]

move_personal_info_item(md, source, dest) ==
  MoveFound(md, source, dest, Traverse(md.personal_info, Split(source)))

MoveOutcome(source, dest, r) ==
  IF r.status = "success"
  THEN Commit(r.memory_data,
              Ret("move_personal_info_item", source, dest, NoneValue, r.status, r.value, 0, 0))
  ELSE Reject(Ret("move_personal_info_item", source, dest, NoneValue, r.status, r.value, 0, 0))

MovePersonalInfoItem(source, dest) ==
  MoveOutcome(source, dest, move_personal_info_item(memory_data, source, dest))

(***************************************************************************)
(* reorganize_misc_items: every leaf of misc with a category suggestion    *)
(* moves to {suggestion}.{leaf-name}; the others stay                      *)
(***************************************************************************)
MiscItems(pinfo) ==
  IF Has(pinfo, <<"m","i","s","c">>) /\ IsDict(Get(pinfo, <<"m","i","s","c">>)) THEN Get(pinfo, <<"m","i","s","c">>).items ELSE <<>>

\* mutant: a leaf with a suggestion is written to its category and kept in misc
SweepLeaf_copies(p, key, val, suggestion) ==
  IF suggestion # NoCategory
  THEN [personal_info |->
          _set_hierarchical_value(p.personal_info, suggestion \o <<".">> \o key, val).personal_info,
        moved |-> p.moved + 1]
  ELSE p

\* one leaf of misc: p is the tree and the count so far
SweepLeaf(p, key, val, suggestion) ==
  IF suggestion # NoCategory
  THEN [personal_info |->
          _set_hierarchical_value(
            Put(p.personal_info, <<"m","i","s","c">>, Del(Get(p.personal_info, <<"m","i","s","c">>), key)),
            suggestion \o <<".">> \o key, val).personal_info,
        moved |-> p.moved + 1]
  ELSE p

Sweep(pinfo, its) ==
  LET F[i \in 0..Len(its)] ==
        IF i = 0 THEN [personal_info |-> pinfo, moved |-> 0]
        ELSE SweepLeaf(F[i - 1], its[i].key, its[i].val, _suggest_category_for_key(its[i].key))
  IN F[Len(its)]

Swept(md, done) ==
  [memory_data |-> [md EXCEPT !.personal_info = done.personal_info],
   status |-> "success", moved |-> done.moved,
   remaining_in_misc |-> Len(MiscItems(done.personal_info))]

reorganize_misc_items(md) == Swept(md, Sweep(md.personal_info, MiscItems(md.personal_info)))

ReorganizeOutcome(r) ==
  Commit(r.memory_data,
         Ret("reorganize_misc_items", <<>>, <<>>, NoneValue, r.status, NoneValue,
             r.moved, r.remaining_in_misc))

ReorganizeMiscItems == ReorganizeOutcome(reorganize_misc_items(memory_data))

(***************************************************************************)
(* The pending-categorization queue                                        *)
(***************************************************************************)
\* an entry of the pending-categorization queue
PendingItem(key, value, timestamp, suggested_category, existing_categories) ==
  [key |-> key, value |-> value, timestamp |-> timestamp,
   suggested_category |-> suggested_category, existing_categories |-> existing_categories]

get_pending_categorization(md) ==
  [status |-> "success", count |-> Len(md.pending_categorization),
   pending_items |-> md.pending_categorization]

IsPending(md, key) ==
  \E i \in 1..Len(md.pending_categorization) : md.pending_categorization[i].key = key

FirstPending(q, key) ==
  CHOOSE j \in 1..Len(q) : q[j].key = key /\ \A h \in 1..(j - 1) : q[h].key # key

Without(q, i) == SubSeq(q, 1, i - 1) \o SubSeq(q, i + 1, Len(q))

\* item i of the queue: its value leaves misc.{key} and goes to
\* {category}.{key}, and the item leaves the queue
CategorizeAt(md, i, category) ==
  LET item == md.pending_categorization[i]
      filed == <<<<"m","i","s","c">>, item.key>>
      rest == IF Traverse(md.personal_info, filed).found
              THEN DelPath(md.personal_info, filed)
              ELSE md.personal_info
  IN [memory_data |->
        [md EXCEPT !.personal_info =
                     _set_hierarchical_value(rest, category \o <<".">> \o item.key,
                                             item.value).personal_info,
                   !.pending_categorization = Without(@, i)],
      status |-> "success", value |-> item.value,
      remaining_pending |-> Len(md.pending_categorization) - 1]

categorize_pending_item(md, key, category) ==
  IF ~IsPending(md, key)
  THEN [memory_data |-> md, status |-> "error", value |-> NoneValue,
        remaining_pending |-> Len(md.pending_categorization)]
  ELSE CategorizeAt(md, FirstPending(md.pending_categorization, key), category)

CategorizeOutcome(key, category, r) ==
  IF r.status = "success"
  THEN Commit(r.memory_data,
              Ret("categorize_pending_item", key, category, NoneValue, r.status, r.value,
                  r.remaining_pending, 0))
  ELSE Reject(Ret("categorize_pending_item", key, category, NoneValue, r.status, r.value,
                  r.remaining_pending, 0))

CategorizePendingItem(key, category) ==
  CategorizeOutcome(key, category, categorize_pending_item(memory_data, key, category))

\* the queue is discarded; the number of items discarded is returned
clear_pending_categorization(md) ==
  [memory_data |-> [md EXCEPT !.pending_categorization = <<>>],
   status |-> "success", cleared |-> Len(md.pending_categorization)]

ClearOutcome(r) ==
  Commit(r.memory_data,
         Ret("clear_pending_categorization", <<>>, <<>>, NoneValue, r.status, NoneValue,
             r.cleared, 0))

ClearPendingCategorization == ClearOutcome(clear_pending_categorization(memory_data))

(***************************************************************************)
(* add_goal, update_goal_status                                            *)
(***************************************************************************)
\* updated_at = 0 : the entry has no updated_at
GoalEntry(md, category, now) ==
  [id |-> Len(md.goals) + 1, category |-> category, status |-> "active",
   created_at |-> now, updated_at |-> 0]

add_goal(md, category, now) ==
  [memory_data |-> [md EXCEPT !.goals = Append(@, GoalEntry(md, category, now))],
   status |-> "success", goal_id |-> Len(md.goals) + 1]

AddGoalOutcome(r) ==
  Commit(r.memory_data,
         Ret("add_goal", <<>>, <<>>, NoneValue, r.status, NoneValue, r.goal_id, 0))

AddGoal(category) ==
  /\ Len(memory_data.goals) < MaxGoals
  /\ AddGoalOutcome(add_goal(memory_data, category, clock + 1))

HasGoal(md, goal_id) == \E i \in 1..Len(md.goals) : md.goals[i].id = goal_id

FirstGoal(md, goal_id) ==
  CHOOSE j \in 1..Len(md.goals) :
     md.goals[j].id = goal_id /\ \A h \in 1..(j - 1) : md.goals[h].id # goal_id

\* mutant: the save is outside the loop, so a missing id saves as well
update_goal_status_always_saves(md, goal_id, status, now) ==
  IF HasGoal(md, goal_id)
  THEN [memory_data |-> [md EXCEPT !.goals[FirstGoal(md, goal_id)].status = status,
                                   !.goals[FirstGoal(md, goal_id)].updated_at = now],
        status |-> "success", saved |-> TRUE]
  ELSE [memory_data |-> md, status |-> "error", saved |-> TRUE]

\* the first goal of the list with the id is updated and the document saved;
\* no such goal: an error, and no save
update_goal_status(md, goal_id, status, now) ==
  IF HasGoal(md, goal_id)
  THEN [memory_data |-> [md EXCEPT !.goals[FirstGoal(md, goal_id)].status = status,
                                   !.goals[FirstGoal(md, goal_id)].updated_at = now],
        status |-> "success", saved |-> TRUE]
  ELSE [memory_data |-> md, status |-> "error", saved |-> FALSE]

UpdateGoalOutcome(goal_id, status, r) ==
  IF r.saved
  THEN Commit(r.memory_data,
              Ret("update_goal_status", <<>>, <<>>, NoneValue, r.status, NoneValue, goal_id, 0))
  ELSE Reject(Ret("update_goal_status", <<>>, <<>>, NoneValue, r.status, NoneValue, goal_id, 0))

UpdateGoalStatus(goal_id, status) ==
  UpdateGoalOutcome(goal_id, status, update_goal_status(memory_data, goal_id, status, clock + 1))

(***************************************************************************)
(* Inputs and initial files                                                *)
(***************************************************************************)
V1 == Leaf("v1")

V2 == Leaf("v2")

Values == {V1, V2}

Item(k, x) == [key |-> k, val |-> x]

Doc(pinfo, goals, pending) ==
  [personal_info |-> pinfo, preferences |-> EmptyDict, memories |-> <<>>,
   relationships |-> EmptyDict, goals |-> goals, pending_categorization |-> pending,
   created_at |-> 0, last_updated |-> 0]

\* a file written before the hierarchy existed
FlatLegacyFile ==
  File(Doc(Dict(<<Item(<<"n","a","m","e">>, V1), Item(<<"b","o","o","k","_","t","i","t","l","e">>, V2), Item(<<"h","o","b","b","y">>, V1)>>), <<>>, <<>>))

\* a hierarchical file whose misc holds items with and without a suggestion
HierarchicalFile ==
  File(Doc(Dict(<<Item(<<"b","a","s","i","c">>, Dict(<<Item(<<"n","a","m","e">>, V1)>>)),
                  Item(<<"m","i","s","c">>, Dict(<<Item(<<"r","a","n","d","o","m","_","i","t","e","m">>, V1), Item(<<"u","n","k","n","o","w","n","_","t","h","i","n","g">>, V2),
                                      Item(<<"e","m","a","i","l","_","b","a","c","k","u","p">>, V1), Item(<<"a","i","_","t","o","o","l">>, V2),
                                      Item(<<"c","o","r","e","_","v","a","l","u","e">>, V1)>>))>>),
           <<>>, <<>>))

\* a hierarchical file whose misc entry is not a mapping
LeafMiscFile ==
  File(Doc(Dict(<<Item(<<"c","a","r","e","e","r">>, Dict(<<Item(<<"j","o","b","_","t","i","t","l","e">>, V1)>>)), Item(<<"m","i","s","c">>, V2)>>),
           <<>>, <<>>))

\* a hierarchical file written by the pending-categorization workflow: two
\* values under misc, and both keys waiting in the queue
PendingFile ==
  File(Doc(Dict(<<Item(<<"b","a","s","i","c">>, Dict(<<Item(<<"n","a","m","e">>, V1)>>)),
                  Item(<<"m","i","s","c">>, Dict(<<Item(<<"m","y","s","t","e","r","y","_","i","t","e","m">>, V1),
                                      Item(<<"u","n","c","l","e","a","r","_","t","h","i","n","g">>, V2)>>))>>),
           <<>>,
           <<PendingItem(<<"m","y","s","t","e","r","y","_","i","t","e","m">>, V1, 0, NoCategory, <<<<"b","a","s","i","c">>, <<"m","i","s","c">>>>),
             PendingItem(<<"u","n","c","l","e","a","r","_","t","h","i","n","g">>, V2, 0, NoCategory, <<<<"b","a","s","i","c">>, <<"m","i","s","c">>>>)>>))

GoalFile ==
  File(Doc(EmptyDict,
           <<[id |-> 1, category |-> "general", status |-> "paused", created_at |-> 0,
              updated_at |-> 0]>>,
           <<>>))

\* flat documents: every selection of FlatKeyPool, in pool order
FlatKeyPool ==
  <<<<"n","a","m","e">>, <<"b","o","o","k","_","t","i","t","l","e">>, <<"f","o","r","m","u","l","a","_","a","i","_","g","o","a","l","s">>, <<"a","i","_","e","x","p","e","r","i","m","e","n","t","_","c","a","n","v","a","s","_","c","r","e","a","t","o","r">>,
    <<"a","i","_","i","d","e","a","t","i","o","n","_","w","o","r","k","s","h","o","p","_","c","o","n","c","e","p","t">>, <<"p","o","d","c","a","s","t","_","d","e","t","a","i","l","s">>, <<"h","o","b","b","y">>, <<"m","i","s","c">>>>

FlatValues == <<"w1", "w2", "w3", "w4", "w5", "w6", "w7", "w8">>

FlatDoc(S) ==
  LET F[i \in 0..Len(FlatKeyPool)] ==
        IF i = 0 THEN EmptyDict
        ELSE IF i \in S THEN Put(F[i - 1], FlatKeyPool[i], Leaf(FlatValues[i])) ELSE F[i - 1]
  IN File(Doc(F[Len(FlatKeyPool)], <<>>, <<>>))

FlatFiles == {FlatDoc(S) : S \in SUBSET (1..Len(FlatKeyPool))}

Starts(c) ==
  /\ memory_data = c.memory_data
  /\ disk = c.disk
  /\ clock = c.clock
  /\ loaded = c.loaded
  /\ last = c.last

InitFrom(files) ==
  \E file \in files :
     \E order \in ConstructOrders(file, 0) :
        Starts(Construct(file, 0, order))

(***************************************************************************)
(* Specifications                                                          *)
(***************************************************************************)
StoreKeys ==
  {<<"n","a","m","e">>, <<"c","a","r","e","e","r",".","n","a","m","e">>, <<"n","a","m","e",".","f","i","r","s","t">>, <<"n","a","m","e",".","f","i","r","s","t",".","x">>, <<"b","o","o","k","_","a","u","t","h","o","r">>, <<"b","o","o","k",".","a","u","t","h","o","r">>, <<"m","i","s","c",".","b","o","o","k","_","a","u","t","h","o","r">>,
   <<"p","h","o","n","e","_","n","u","m","b","e","r">>, <<"n","e","w","_","p","r","o","j","e","c","t">>, <<"c","o","r","e","_","p","r","i","n","c","i","p","l","e">>, <<"w","o","r","k","_","e","m","a","i","l">>, <<"B","o","o","k","_","t","o","o","l">>,
   <<"m","y","s","t","e","r","y","_","i","t","e","m">>}

Init == InitFrom({AbsentFile, HierarchicalFile, LeafMiscFile, FlatLegacyFile})

Next ==
  \/ \E key \in StoreKeys, value \in Values : StorePersonalInfo(key, value)
  \/ Restart

Spec == Init /\ [][Next]_vars

\* manual moves
MoveStoreKeys == {<<"m","i","s","c",".","t","e","s","t","_","i","t","e","m">>, <<"b","o","o","k",".","a","u","t","h","o","r">>, <<"a",".","b",".","c">>, <<"a",".","b",".","c",".","c">>}

MoveSources == {<<"m","i","s","c",".","t","e","s","t","_","i","t","e","m">>, <<"m","i","s","c",".","e","m","a","i","l","_","b","a","c","k","u","p">>, <<"b","o","o","k",".","a","u","t","h","o","r">>, <<"a",".","b">>, <<"a",".","b",".","c">>, <<"m","i","s","c">>}

MoveDests == {<<"b","a","s","i","c",".","m","o","v","e","d","_","i","t","e","m">>, <<"m","i","s","c",".","t","e","s","t","_","i","t","e","m">>, <<"m","i","s","c",".","t","e","s","t","_","i","t","e","m",".","s","u","b">>, <<"a",".","b",".","c",".","d">>, <<"a",".","b">>, <<"m","i","s","c",".","x">>}

InitMove == InitFrom({AbsentFile, HierarchicalFile})

NextMove ==
  \/ \E key \in MoveStoreKeys, value \in Values : StorePersonalInfo(key, value)
  \/ \E source \in MoveSources, dest \in MoveDests : MovePersonalInfoItem(source, dest)

SpecMove == InitMove /\ [][NextMove]_vars

\* the misc sweep and the pending queue
MiscStoreKeys == {<<"m","y","s","t","e","r","y","_","i","t","e","m">>, <<"u","n","c","l","e","a","r","_","t","h","i","n","g">>, <<"m","i","s","c",".","e","m","a","i","l","_","b","a","c","k","u","p">>, <<"m","i","s","c",".","B","o","o","k","_","t","o","o","l">>, <<>>}

PendingKeys == {<<"m","y","s","t","e","r","y","_","i","t","e","m">>, <<"u","n","c","l","e","a","r","_","t","h","i","n","g">>}

ChosenCategories == {<<"p","e","r","s","o","n","a","l">>, <<"m","i","s","c">>, <<"m","i","s","c",".","m","y","s","t","e","r","y","_","i","t","e","m">>}

InitMisc == InitFrom({AbsentFile, HierarchicalFile, PendingFile})

NextMisc ==
  \/ \E key \in MiscStoreKeys, value \in Values : StorePersonalInfo(key, value)
  \/ ReorganizeMiscItems
  \/ \E key \in PendingKeys, category \in ChosenCategories : CategorizePendingItem(key, category)
  \/ ClearPendingCategorization

SpecMisc == InitMisc /\ [][NextMisc]_vars

\* goals
GoalIds == 1..(MaxGoals + 1)

GoalStatuses == {"active", "completed", "paused", "cancelled", "archived"}

GoalCategories == {"general", "personal"}

InitGoals == InitFrom({AbsentFile, GoalFile})

NextGoals ==
  \/ \E category \in GoalCategories : AddGoal(category)
  \/ \E goal_id \in GoalIds, status \in GoalStatuses : UpdateGoalStatus(goal_id, status)

SpecGoals == InitGoals /\ [][NextGoals]_vars

\* construction over flat files, and restarts
InitMigration == InitFrom(FlatFiles \cup {AbsentFile, CorruptFile})

NextMigration == Restart

SpecMigration == InitMigration /\ [][NextMigration]_vars


(***************************************************************************)
(* store_preference, add_memory, search_memories, store_relationship       *)
(***************************************************************************)
\* preferences[category][preference] = value, the category created when new
store_preference(md, category, preference, value) ==
  [memory_data |->
     [md EXCEPT !.preferences =
        Put(@, category,
            Put(IF Has(@, category) THEN Get(@, category) ELSE EmptyDict,
                preference, value))],
   status |-> "success"]

StorePreferenceOutcome(category, preference, value, r) ==
  Commit(r.memory_data,
         Ret("store_preference", category, preference, value, r.status, NoneValue, 0, 0))

StorePreference(category, preference, value) ==
  StorePreferenceOutcome(category, preference, value,
                         store_preference(memory_data, category, preference, value))

\* the entry add_memory appends; tags is the given list, or [] when none is given
MemoryEntry(md, content, tags, now) ==
  [id |-> Len(md.memories) + 1, content |-> content, tags |-> tags, timestamp |-> now]

add_memory(md, content, tags, now) ==
  [memory_data |-> [md EXCEPT !.memories = Append(@, MemoryEntry(md, content, tags, now))],
   status |-> "success", memory_id |-> Len(md.memories) + 1]

AddMemoryOutcome(content, tags, r) ==
  Commit(r.memory_data,
         Ret("add_memory", content, tags, NoneValue, r.status, NoneValue, r.memory_id, 0))

AddMemory(content, tags) ==
  AddMemoryOutcome(content, tags, add_memory(memory_data, content, tags, clock + 1))

\* relationships[name] = the new record, whatever was stored under the name
store_relationship(md, name, relationship_type, details, now) ==
  [memory_data |->
     [md EXCEPT !.relationships =
        Put(@, name, [type |-> relationship_type, details |-> details,
                      created_at |-> now, last_updated |-> now])],
   status |-> "success"]

StoreRelationshipOutcome(name, relationship_type, r) ==
  Commit(r.memory_data,
         Ret("store_relationship", name, relationship_type, NoneValue, r.status,
             NoneValue, 0, 0))

StoreRelationship(name, relationship_type, details) ==
  StoreRelationshipOutcome(name, relationship_type,
     store_relationship(memory_data, name, relationship_type, details, clock + 1))

\* every mutating operation of the storage, and restarts
WriteKeys == {<<"n","a","m","e">>, <<"b","o","o","k",".","a","u","t","h","o","r">>, <<"m","y","s","t","e","r","y","_","i","t","e","m">>}

PreferenceCategories == {<<"f","o","o","d">>, <<"m","u","s","i","c">>}

PreferenceNames == {<<"f","a","v","o","u","r","i","t","e">>}

RelationshipNames == {<<"a","l","i","c","e">>}

RelationshipTypes == {<<"f","r","i","e","n","d">>, <<"c","o","l","l","e","a","g","u","e">>}

RelationshipDetails == {EmptyDict, Dict(<<Item(<<"c","i","t","y">>, V1)>>)}

WriteContents == {<<"m","e","e","t","i","n","g">>}

WriteTags == {<<>>, <<<<"w","o","r","k">>>>}

InitWrites == InitFrom({AbsentFile, CorruptFile, FlatLegacyFile, GoalFile})

NextWrites ==
  \/ \E key \in WriteKeys, value \in Values : StorePersonalInfo(key, value)
  \/ \E category \in PreferenceCategories, preference \in PreferenceNames, value \in Values :
        StorePreference(category, preference, value)
  \/ \E content \in WriteContents, tags \in WriteTags : AddMemory(content, tags)
  \/ \E name \in RelationshipNames, relationship_type \in RelationshipTypes,
        details \in RelationshipDetails :
        StoreRelationship(name, relationship_type, details)
  \/ \E category \in GoalCategories : AddGoal(category)
  \/ \E goal_id \in GoalIds, status \in GoalStatuses : UpdateGoalStatus(goal_id, status)
  \/ Restart

SpecWrites == InitWrites /\ [][NextWrites]_vars

\* one memory against the filters; a query or tag list that is None or empty
\* counts as not given
MemoryMatches(memory, query, tags) ==
  \/ query # <<>> /\ Within(Lower(query), Lower(memory.content))
  \/ tags # <<>> /\ \E i \in 1..Len(tags) : \E j \in 1..Len(memory.tags) :
                       Lower(tags[i]) = Lower(memory.tags[j])
  \/ query = <<>> /\ tags = <<>>

\* sorted(results, key=timestamp, reverse=True): a stable sort, equal
\* timestamps keep their list order
NewestFirst(results) ==
  LET Rank(i) ==
        Cardinality({j \in 1..Len(results) :
                       \/ results[j].timestamp > results[i].timestamp
                       \/ results[j].timestamp = results[i].timestamp /\ j < i}) + 1
  IN [k \in 1..Len(results) |-> results[CHOOSE i \in 1..Len(results) : Rank(i) = k]]

\* s[:limit], a negative limit counting from the end
Slice(s, limit) ==
  IF limit >= 0
  THEN SubSeq(s, 1, IF limit < Len(s) THEN limit ELSE Len(s))
  ELSE SubSeq(s, 1, IF Len(s) + limit > 0 THEN Len(s) + limit ELSE 0)

SearchResult(results, md) ==
  [memories |-> results, count |-> Len(results), total_memories |-> Len(md.memories)]

search_memories(md, query, tags, limit) ==
  SearchResult(
    Slice(NewestFirst(SelectSeq(md.memories,
                                LAMBDA memory : MemoryMatches(memory, query, tags))),
          limit),
    md)

SearchMemories(query, tags, limit) ==
  Reject(Ret("search_memories", query, tags, NoneValue, "success",
             search_memories(memory_data, query, tags, limit), limit, 0))

\* files that hold the first memories of a history, oldest first
MemoryPool ==
  <<[id |-> 1, content |-> <<"T","e","a","m"," ","M","e","e","t","i","n","g">>, tags |-> <<<<"W","o","r","k">>>>, timestamp |-> -3],
    [id |-> 2, content |-> <<"l","u","n","c","h">>, tags |-> <<<<"f","o","o","d">>, <<"w","o","r","k">>>>, timestamp |-> -2],
    [id |-> 3, content |-> <<"M","E","E","T","I","N","G"," ","n","o","t","e","s">>, tags |-> <<>>, timestamp |-> -1]>>

MemoryFiles ==
  {File([Doc(EmptyDict, <<>>, <<>>) EXCEPT !.memories = SubSeq(MemoryPool, 1, n)]) :
     n \in 0..Len(MemoryPool)}

MemoryContents == {<<"m","e","e","t","i","n","g">>, <<"c","a","l","l">>}

SearchQueries == {<<>>, <<"m","e","e","t","i","n","g">>, <<"M","E","E","T">>, <<"z","z","z">>}

SearchTags == {<<>>, <<<<"w","o","r","k">>>>, <<<<"F","O","O","D">>, <<"x">>>>}

SearchLimits == {-1, 0, 1, 2, 10}

InitMemories == InitFrom(MemoryFiles)

NextMemories ==
  \/ \E content \in MemoryContents, tags \in WriteTags : AddMemory(content, tags)
  \/ \E query \in SearchQueries, tags \in SearchTags, limit \in SearchLimits :
        SearchMemories(query, tags, limit)

SpecMemories == InitMemories /\ [][NextMemories]_vars
(***************************************************************************)
(* Properties                                                              *)
(***************************************************************************)
StoredLast == last.op = "store_personal_info" /\ last.status = "success"

\* the value at a path of names, by plain descent
ValueAt(pinfo, parts) == Traverse(pinfo, parts)

Holds(pinfo, parts, value) == ValueAt(pinfo, parts) = [value |-> value, found |-> TRUE]

Returns(md, key, value) ==
  get_personal_info(md, key).found /\ get_personal_info(md, key).value = value

\* C1: round trip. After store_personal_info(k, v), get_personal_info(k)
\* returns v with found = true.
C1_RoundTrip == StoredLast => Returns(memory_data, last.key, last.value)

MappedCategoryOf(key) ==
  hierarchical_mapping[
    CHOOSE i \in 1..Len(hierarchical_mapping) :
       \E j \in 1..Len(hierarchical_mapping[i].keys) : hierarchical_mapping[i].keys[j] = key
  ].category

StripKnownPrefix(key) ==
  IF StartsWith(key, <<"b","o","o","k","_">>) THEN DropPrefix(key, 5)
  ELSE IF StartsWith(key, <<"f","o","r","m","u","l","a","_","a","i","_">>) THEN DropPrefix(key, 11)
  ELSE IF StartsWith(key, <<"a","i","_","e","x","p","e","r","i","m","e","n","t","_","c","a","n","v","a","s","_">>) THEN DropPrefix(key, 21)
  ELSE key

\* some entry named leaf holds value, at any depth below node
RECURSIVE OccursUnder(_, _, _)
OccursUnder(node, leaf, value) ==
  /\ IsDict(node)
  /\ \E i \in 1..Len(node.items) :
        \/ node.items[i].key = leaf /\ node.items[i].val = value
        \/ OccursUnder(node.items[i].val, leaf, value)

KeptByMigration(pinfo, key, value) ==
  \/ /\ key \in KeysOfMapping(hierarchical_mapping)
     /\ Has(pinfo, MappedCategoryOf(key))
     /\ OccursUnder(Get(pinfo, MappedCategoryOf(key)), StripKnownPrefix(key), value)
  \/ Holds(pinfo, <<<<"m","i","s","c">>, key>>, value)

MigratedLast == last.op = "construct" /\ last.status = "migrated"

\* C2: migration never drops a key. After a construction that rewrote a flat
\* personal_info, the value of every original top-level key is in the new tree,
\* under its mapped category with the known prefix stripped from the leaf name,
\* or under misc.
C2_MigrationKeepsEveryKey ==
  MigratedLast =>
    \A i \in 1..Len(loaded.items) :
       KeptByMigration(memory_data.personal_info, loaded.items[i].key, loaded.items[i].val)

\* C3: migration is idempotent. A construction over what the previous
\* construction left (its migration result) changes nothing in personal_info and
\* does not write the file again.
C3_MigrationIdempotent ==
  [][(last.op = "construct" /\ last'.op = "construct")
       => /\ memory_data'.personal_info = memory_data.personal_info
          /\ disk' = disk]_vars

\* C4: legacy equivalence for book keys. After store_personal_info("book.X", v),
\* get_personal_info("book_X") returns v; after store_personal_info("book_X", v),
\* get_personal_info("book.X") and get_personal_info("book_X") both return v.
C4_BookLegacyEquivalence ==
  /\ (StoredLast /\ StartsWith(last.key, <<"b","o","o","k",".">>))
       => Returns(memory_data, <<"b","o","o","k","_">> \o DropPrefix(last.key, 5), last.value)
  /\ (StoredLast /\ StartsWith(last.key, <<"b","o","o","k","_">>))
       => /\ Returns(memory_data, <<"b","o","o","k",".">> \o DropPrefix(last.key, 5), last.value)
          /\ Returns(memory_data, last.key, last.value)

\* a flat key that no legacy entry and none of the three prefixes claims
FlatUnmapped(key) ==
  /\ ~HasDot(key)
  /\ ~InLegacyMappings(key)
  /\ ~StartsWith(key, <<"b","o","o","k","_">>)
  /\ ~StartsWith(key, <<"f","o","r","m","u","l","a","_","a","i","_">>)
  /\ ~StartsWith(key, <<"a","i","_","e","x","p","e","r","i","m","e","n","t","_","c","a","n","v","a","s","_">>)

\* the categories in priority order, each with its keyword list
KeywordRules ==
  << [category |-> <<"b","a","s","i","c">>, patterns |-> BasicPatterns],
     [category |-> <<"c","a","r","e","e","r">>, patterns |-> CareerPatterns],
     [category |-> <<"b","o","o","k">>, patterns |-> BookPatterns],
     [category |-> <<"i","n","n","o","v","a","t","i","o","n","s">>, patterns |-> InnovationPatterns],
     [category |-> <<"c","o","m","m","u","n","i","c","a","t","i","o","n">>, patterns |-> CommunicationPatterns],
     [category |-> <<"v","a","l","u","e","s","_","i","n","s","i","g","h","t","s">>, patterns |-> ValuesPatterns] >>

KeywordMatch(i, key) == AnyWithin(KeywordRules[i].patterns, Lower(key))

\* book also matches a lower-cased key that starts with book_
RuleMatch(i, key) ==
  KeywordMatch(i, key) \/ (KeywordRules[i].category = <<"b","o","o","k">> /\ StartsWith(Lower(key), <<"b","o","o","k","_">>))

FirstKeywordCategory(key) ==
  KeywordRules[CHOOSE i \in 1..Len(KeywordRules) :
                  KeywordMatch(i, key) /\ \A h \in 1..(i - 1) : ~KeywordMatch(h, key)].category

FirstRuleCategory(key) ==
  KeywordRules[CHOOSE i \in 1..Len(KeywordRules) :
                  RuleMatch(i, key) /\ \A h \in 1..(i - 1) : ~RuleMatch(h, key)].category

\* C5 as stated: a flat unmapped key goes to {c}.{key}, c the first category in
\* the order basic, career, book, innovations, communication, values_insights
\* whose keyword list has a substring in the lower-cased key.
C5_FirstKeywordCategory ==
  (StoredLast /\ FlatUnmapped(last.key)
     /\ \E i \in 1..Len(KeywordRules) : KeywordMatch(i, last.key))
    => Holds(memory_data.personal_info, <<FirstKeywordCategory(last.key), last.key>>, last.value)

\* C5 amended: a flat unmapped key goes to {c}.{key}, c the first category in
\* that order whose rule matches the lower-cased key, where the rule of book is
\* "starts with book_ or has a keyword of the book list"; phone_number goes
\* under basic, new_project under innovations, core_principle under
\* values_insights.
C5_FirstRuleCategory ==
  /\ (StoredLast /\ FlatUnmapped(last.key)
        /\ \E i \in 1..Len(KeywordRules) : RuleMatch(i, last.key))
       => Holds(memory_data.personal_info, <<FirstRuleCategory(last.key), last.key>>, last.value)
  /\ (StoredLast /\ last.key = <<"p","h","o","n","e","_","n","u","m","b","e","r">>)
       => Holds(memory_data.personal_info, <<<<"b","a","s","i","c">>, <<"p","h","o","n","e","_","n","u","m","b","e","r">>>>, last.value)
  /\ (StoredLast /\ last.key = <<"n","e","w","_","p","r","o","j","e","c","t">>)
       => Holds(memory_data.personal_info, <<<<"i","n","n","o","v","a","t","i","o","n","s">>, <<"n","e","w","_","p","r","o","j","e","c","t">>>>, last.value)
  /\ (StoredLast /\ last.key = <<"c","o","r","e","_","p","r","i","n","c","i","p","l","e">>)
       => Holds(memory_data.personal_info, <<<<"v","a","l","u","e","s","_","i","n","s","i","g","h","t","s">>, <<"c","o","r","e","_","p","r","i","n","c","i","p","l","e">>>>, last.value)

\* a key with two matching categories lands in the earlier one, and a key that
\* only the book_ prefix rule matches lands in book
C5_Witness ==
  \/ /\ StoredLast /\ last.key = <<"w","o","r","k","_","e","m","a","i","l">>
     /\ Holds(memory_data.personal_info, <<<<"b","a","s","i","c">>, <<"w","o","r","k","_","e","m","a","i","l">>>>, last.value)
  \/ /\ StoredLast /\ last.key = <<"B","o","o","k","_","t","o","o","l">>
     /\ Holds(memory_data.personal_info, <<<<"b","o","o","k">>, <<"B","o","o","k","_","t","o","o","l">>>>, last.value)

\* a flat key matched by no legacy entry, prefix or suggestion rule
Unmatched(key) ==
  FlatUnmapped(key) /\ \A i \in 1..Len(KeywordRules) : ~RuleMatch(i, key)

\* value is somewhere in the tree
RECURSIVE Occurs(_, _)
Occurs(node, value) ==
  /\ IsDict(node)
  /\ \E i \in 1..Len(node.items) :
        node.items[i].val = value \/ Occurs(node.items[i].val, value)

\* C6: store_personal_info never fails. Every call returns success and leaves
\* the value in the personal_info tree; a flat key matched by no legacy entry,
\* prefix or suggestion rule is at misc.{key}, misc being a mapping.
C6_StoreNeverFails ==
  last.op = "store_personal_info"
    => /\ last.status = "success"
       /\ Occurs(memory_data.personal_info, last.value)
       /\ Unmatched(last.key)
            => /\ IsDict(ValueAt(memory_data.personal_info, <<<<"m","i","s","c">>>>).value)
               /\ Holds(memory_data.personal_info, <<<<"m","i","s","c">>, last.key>>, last.value)

\* an unmatched key was stored after the file was read with a misc that is not a mapping
C6_Witness ==
  /\ StoredLast /\ last.key = <<"m","y","s","t","e","r","y","_","i","t","e","m">>
  /\ Has(loaded, <<"m","i","s","c">>) /\ ~IsDict(Get(loaded, <<"m","i","s","c">>))
  /\ Holds(memory_data.personal_info, <<<<"m","i","s","c">>, <<"m","y","s","t","e","r","y","_","i","t","e","m">>>>, last.value)

PendingCount(md) == get_pending_categorization(md).count

CategorizedLast == last.op = "categorize_pending_item" /\ last.status = "success"

\* the chosen category is misc, or a path below misc
UnderMisc(category) == Head(Split(category)) = <<"m","i","s","c">>

\* C7 as stated: the pending-categorization workflow. Each store_personal_info
\* of a flat key that no legacy entry, prefix or suggestion rule matches appends
\* one pending item; categorize_pending_item(key, c) of a pending key removes
\* exactly one item and makes the value retrievable at {c}.{key} and not at
\* misc.{key}; clear_pending_categorization returns the number of items
\* discarded and leaves the queue empty.
C7_PendingWorkflow ==
  [][/\ (last'.op = "store_personal_info" /\ Unmatched(last'.key))
          => PendingCount(memory_data') = PendingCount(memory_data) + 1
     /\ CategorizedLast'
          => /\ last'.n = PendingCount(memory_data) - 1
             /\ PendingCount(memory_data') = PendingCount(memory_data) - 1
             /\ Returns(memory_data', last'.dest \o <<".">> \o last'.key, last'.out)
             /\ ~get_personal_info(memory_data', <<"m","i","s","c",".">> \o last'.key).found
     /\ last'.op = "clear_pending_categorization"
          => /\ last'.n = PendingCount(memory_data)
             /\ PendingCount(memory_data') = 0]_vars

\* C7, the part on the queue operations: categorize_pending_item(key, c) of a
\* pending key removes one item and makes its value retrievable at {c}.{key},
\* and not at misc.{key} when c is neither misc nor a path below misc;
\* clear_pending_categorization returns the number of items discarded and
\* leaves the queue empty; store_personal_info leaves the queue as it is.
C7_QueueOperations ==
  [][/\ last'.op = "store_personal_info"
          => PendingCount(memory_data') = PendingCount(memory_data)
     /\ CategorizedLast'
          => /\ last'.n = PendingCount(memory_data) - 1
             /\ PendingCount(memory_data') = PendingCount(memory_data) - 1
             /\ Returns(memory_data', last'.dest \o <<".">> \o last'.key, last'.out)
             /\ ~UnderMisc(last'.dest)
                  => ~get_personal_info(memory_data', <<"m","i","s","c",".">> \o last'.key).found
     /\ last'.op = "clear_pending_categorization"
          => /\ last'.n = PendingCount(memory_data)
             /\ PendingCount(memory_data') = 0]_vars

\* one path is the other, or runs through it
PrefixRelated(p, q) ==
  \/ Len(p) <= Len(q) /\ SubSeq(q, 1, Len(p)) = p
  \/ Len(q) <= Len(p) /\ SubSeq(p, 1, Len(q)) = q

\* q is p, or a path that runs through p
Through(p, q) == Len(p) <= Len(q) /\ SubSeq(q, 1, Len(p)) = p

\* q stops short of p, and the value v holds the rest of p
HoldsRest(p, q, v) ==
  /\ Len(q) < Len(p) /\ SubSeq(p, 1, Len(q)) = q
  /\ Traverse(v, SubSeq(p, Len(q) + 1, Len(p))).found

MovedLast == last.op = "move_personal_info_item" /\ last.status = "success"

\* C8 as stated: for every source path that resolves to a value v and every
\* destination path, move_personal_info_item returns success with v, and
\* afterwards the source is not found and the destination returns v.
C8_MoveAnyDestination ==
  [][(last'.op = "move_personal_info_item"
        /\ HasDot(last'.key) /\ HasDot(last'.dest)
        /\ get_personal_info(memory_data, last'.key).found)
       => /\ last'.status = "success"
          /\ last'.out = get_personal_info(memory_data, last'.key).value
          /\ ~get_personal_info(memory_data', last'.key).found
          /\ Returns(memory_data', last'.dest, last'.out)]_vars

\* C8 amended: the same, for a destination path that is neither the source
\* path nor a path through it; and, when the destination is a proper prefix of
\* the source, for a value that does not itself hold the rest of the source
\* path.
C8_MoveOffSource ==
  [][(last'.op = "move_personal_info_item"
        /\ HasDot(last'.key) /\ HasDot(last'.dest)
        /\ get_personal_info(memory_data, last'.key).found
        /\ ~Through(Split(last'.key), Split(last'.dest))
        /\ ~HoldsRest(Split(last'.key), Split(last'.dest),
                      get_personal_info(memory_data, last'.key).value))
       => /\ last'.status = "success"
          /\ last'.out = get_personal_info(memory_data, last'.key).value
          /\ ~get_personal_info(memory_data', last'.key).found
          /\ Returns(memory_data', last'.dest, last'.out)]_vars

\* misc.test_item was stored and then moved to basic.moved_item
C8_Witness ==
  /\ MovedLast /\ last.key = <<"m","i","s","c",".","t","e","s","t","_","i","t","e","m">> /\ last.dest = <<"b","a","s","i","c",".","m","o","v","e","d","_","i","t","e","m">>
  /\ ~get_personal_info(memory_data, <<"m","i","s","c",".","t","e","s","t","_","i","t","e","m">>).found
  /\ Returns(memory_data, <<"b","a","s","i","c",".","m","o","v","e","d","_","i","t","e","m">>, last.out)

MiscKeys(pinfo) == {MiscItems(pinfo)[i].key : i \in 1..Len(MiscItems(pinfo))}

\* where the sweep leaves one leaf of misc
SweptTo(before, after, key, value) ==
  IF _suggest_category_for_key(key) # NoCategory
  THEN /\ Holds(after, <<_suggest_category_for_key(key), key>>, value)
       /\ key \notin MiscKeys(after)
  ELSE Holds(after, <<<<"m","i","s","c">>, key>>, value)

TestMiscKeys == {<<"r","a","n","d","o","m","_","i","t","e","m">>, <<"u","n","k","n","o","w","n","_","t","h","i","n","g">>, <<"e","m","a","i","l","_","b","a","c","k","u","p">>, <<"a","i","_","t","o","o","l">>, <<"c","o","r","e","_","v","a","l","u","e">>}

\* C9: misc reorganization. reorganize_misc_items moves every leaf of misc whose
\* name has a category suggestion to {suggestion}.{leaf-name} and removes it
\* from misc, leaves the other leaves in misc unchanged, and reports moved and
\* remaining_in_misc that add up to the number of misc leaves before the call:
\* 3 and 2 for email_backup, ai_tool, core_value, random_item, unknown_thing, which
\* go to basic, innovations and values_insights.
C9_MiscReorganization ==
  [][last'.op = "reorganize_misc_items"
       => /\ \A i \in 1..Len(MiscItems(memory_data.personal_info)) :
                SweptTo(memory_data.personal_info, memory_data'.personal_info,
                        MiscItems(memory_data.personal_info)[i].key,
                        MiscItems(memory_data.personal_info)[i].val)
          /\ last'.n + last'.m = Len(MiscItems(memory_data.personal_info))
          /\ last'.m = Len(MiscItems(memory_data'.personal_info))
          /\ MiscKeys(memory_data.personal_info) = TestMiscKeys
               => /\ last'.n = 3 /\ last'.m = 2
                  /\ Has(Get(memory_data'.personal_info, <<"b","a","s","i","c">>), <<"e","m","a","i","l","_","b","a","c","k","u","p">>)
                  /\ Has(Get(memory_data'.personal_info, <<"i","n","n","o","v","a","t","i","o","n","s">>), <<"a","i","_","t","o","o","l">>)
                  /\ Has(Get(memory_data'.personal_info, <<"v","a","l","u","e","s","_","i","n","s","i","g","h","t","s">>), <<"c","o","r","e","_","v","a","l","u","e">>)
                  /\ MiscKeys(memory_data'.personal_info) = {<<"r","a","n","d","o","m","_","i","t","e","m">>, <<"u","n","k","n","o","w","n","_","t","h","i","n","g">>}
     ]_vars

\* the sweep of the five test leaves moved three and left two
C9_Witness ==
  /\ last.op = "reorganize_misc_items" /\ last.n = 3 /\ last.m = 2
  /\ MiscKeys(memory_data.personal_info) = {<<"r","a","n","d","o","m","_","i","t","e","m">>, <<"u","n","k","n","o","w","n","_","t","h","i","n","g">>}
  /\ Has(memory_data.personal_info, <<"v","a","l","u","e","s","_","i","n","s","i","g","h","t","s">>)

\* C10: update_goal_status with an id that no goal has returns an error, leaves
\* the goal list and the rest of the in-memory document unchanged, and does not
\* rewrite the file.
C10_UnknownGoalId ==
  [][(last'.op = "update_goal_status" /\ ~HasGoal(memory_data, last'.n))
       => /\ last'.status = "error"
          /\ memory_data' = memory_data
          /\ disk' = disk]_vars

\* an update of an id outside a non-empty goal list was refused
C10_Witness ==
  /\ last.op = "update_goal_status" /\ last.status = "error"
  /\ Len(memory_data.goals) > 0
  /\ ~HasGoal(memory_data, last.n)



(***************************************************************************)
(* Claims C11..C17                                                         *)
(***************************************************************************)
\* the file holds the whole in-memory document
Persisted == disk.state = "ok" /\ disk.doc = memory_data

MutatingOps ==
  {"store_personal_info", "store_preference", "add_memory", "store_relationship",
   "add_goal", "update_goal_status"}

\* the call that has just completed was a successful mutating operation, or a
\* construction whose migration replaced the tree
SuccessfulMutation ==
  \/ last.op \in MutatingOps /\ last.status = "success"
  \/ last.op = "construct" /\ last.status = "migrated"

\* C11: after every successful mutating operation (store_personal_info,
\* store_preference, add_memory, store_relationship, add_goal,
\* update_goal_status on an existing id, a migration that changes the tree) the
\* persisted document equals the whole in-memory document, and once they are
\* equal no later operation makes them differ.
C11_WriteThrough ==
  /\ [](SuccessfulMutation => Persisted)
  /\ [][Persisted => Persisted']_vars

\* a memory and then a relationship were written over a file that did not
\* exist, and the file holds both
C11_Witness ==
  /\ Persisted
  /\ last.op = "store_relationship" /\ last.status = "success"
  /\ Len(memory_data.memories) = 1
  /\ NonEmpty(memory_data.relationships)
  /\ loaded = EmptyDict

AllowedGoalStatuses == {"active", "completed", "paused", "cancelled"}

\* C12: after any sequence of add_goal and update_goal_status calls every goal
\* of the list has status active, completed, paused or cancelled, and add_goal
\* creates the goal with status active.
C12_GoalStatusInvariant ==
  /\ \A i \in 1..Len(memory_data.goals) :
        memory_data.goals[i].status \in AllowedGoalStatuses
  /\ (last.op = "add_goal" /\ last.status = "success")
       => memory_data.goals[last.n].status = "active"

SearchedLast == last.op = "search_memories"

\* the positions of the stored memories that the filters of the last search
\* select: the content contains the query or the memory carries one of the
\* tags, case-insensitively; every memory when neither filter was given
Selected ==
  {i \in 1..Len(memory_data.memories) :
     \/ last.key # <<>> /\ Within(Lower(last.key), Lower(memory_data.memories[i].content))
     \/ last.dest # <<>> /\ \E t \in 1..Len(last.dest) :
          \E u \in 1..Len(memory_data.memories[i].tags) :
             Lower(last.dest[t]) = Lower(memory_data.memories[i].tags[u])
     \/ last.key = <<>> /\ last.dest = <<>>}

\* the returned list holds selected memories only, none twice, newest first,
\* and no selected memory left out is newer than a returned one
NewestSelected(returned) ==
  /\ \A k \in 1..Len(returned) :
        \E i \in Selected : memory_data.memories[i] = returned[k]
  /\ \A k, l \in 1..Len(returned) :
        k < l => /\ returned[k].id # returned[l].id
                 /\ returned[k].timestamp >= returned[l].timestamp
  /\ \A i \in Selected :
        (\A k \in 1..Len(returned) : returned[k] # memory_data.memories[i])
          => \A k \in 1..Len(returned) :
                returned[k].timestamp >= memory_data.memories[i].timestamp

\* C13: search_memories(query, tags, limit) returns exactly the selected
\* memories, newest timestamp first, truncated to at most limit entries (none
\* when limit is not positive); count is the number returned and
\* total_memories the number stored.
C13_SearchMemories ==
  SearchedLast =>
    /\ NewestSelected(last.out.memories)
    /\ Len(last.out.memories) =
         (IF Cardinality(Selected) <= last.n THEN Cardinality(Selected)
          ELSE IF last.n > 0 THEN last.n ELSE 0)
    /\ last.out.count = Len(last.out.memories)
    /\ last.out.total_memories = Len(memory_data.memories)

\* the same for a limit that is not negative: what the code does on the inputs
\* where a truncation to limit entries exists
C13_SearchNonNegativeLimit ==
  (SearchedLast /\ last.n >= 0) =>
    /\ NewestSelected(last.out.memories)
    /\ Len(last.out.memories) =
         (IF Cardinality(Selected) <= last.n THEN Cardinality(Selected) ELSE last.n)
    /\ last.out.count = Len(last.out.memories)
    /\ last.out.total_memories = Len(memory_data.memories)

\* C14: legacy flat names stay readable after migration. After a construction
\* that rewrote a flat personal_info, get_personal_info with the original flat
\* name of every key of the migration table returns the value the flat
\* document held, the formula_ai_ and ai_experiment_canvas_ keys included.
C14_LegacyNamesReadable ==
  MigratedLast =>
    \A i \in 1..Len(loaded.items) :
       loaded.items[i].key \in KeysOfMapping(hierarchical_mapping)
         => Returns(memory_data, loaded.items[i].key, loaded.items[i].val)

\* every segment of the path names an entry of a mapping
RECURSIVE Reaches(_, _)
Reaches(node, parts) ==
  \/ parts = <<>>
  \/ /\ IsDict(node) /\ Has(node, Head(parts))
     /\ Reaches(Get(node, Head(parts)), Tail(parts))

RECURSIVE NodeAt(_, _)
NodeAt(node, parts) ==
  IF parts = <<>> THEN node ELSE NodeAt(Get(node, Head(parts)), Tail(parts))

\* child j of category i answers the flat name key: the child has that name,
\* or the name is {category}_{child} or book_{child}
LegacyAnswer(pinfo, i, j, key) ==
  LET category_name == pinfo.items[i].key
      child == pinfo.items[i].val.items[j].key
  IN \/ child = key
     \/ key = category_name \o <<"_">> \o child
     \/ key = <<"b","o","o","k","_">> \o child

LegacyCategories(pinfo, key) ==
  {i \in 1..Len(pinfo.items) :
     /\ IsDict(pinfo.items[i].val)
     /\ \E j \in 1..Len(pinfo.items[i].val.items) : LegacyAnswer(pinfo, i, j, key)}

\* the answer of the first category that has one: its child of that very name,
\* else its first child that answers through a prefix
LegacyValue(pinfo, key) ==
  LET i == CHOOSE c \in LegacyCategories(pinfo, key) :
              \A d \in LegacyCategories(pinfo, key) : c <= d
      children == pinfo.items[i].val.items
      j == IF \E e \in 1..Len(children) : children[e].key = key
           THEN CHOOSE e \in 1..Len(children) : children[e].key = key
           ELSE CHOOSE e \in 1..Len(children) :
                   /\ LegacyAnswer(pinfo, i, e, key)
                   /\ \A f \in 1..(e - 1) : ~LegacyAnswer(pinfo, i, f, key)
  IN children[j].val

\* the three rules in their order
Resolved(pinfo, key) ==
  IF Has(pinfo, key) THEN [value |-> Get(pinfo, key), found |-> TRUE]
  ELSE IF HasDot(key) /\ Reaches(pinfo, Split(key))
  THEN [value |-> NodeAt(pinfo, Split(key)), found |-> TRUE]
  ELSE IF LegacyCategories(pinfo, key) # {}
  THEN [value |-> LegacyValue(pinfo, key), found |-> TRUE]
  ELSE [value |-> NoneValue, found |-> FALSE]

QueryKeys ==
  {<<"n","a","m","e">>, <<"m","i","s","c">>, <<"b","o","o","k",".","a","u","t","h","o","r">>, <<"n","a","m","e",".","f","i","r","s","t">>, <<"b","o","o","k",".","a","u","t","h","o","r",".","x">>, <<"n","a","m","e",".","f","i","r","s","t",".","x">>,
   <<"z","z","z",".","a">>, <<"b","o","o","k","_","t","i","t","l","e">>, <<"b","a","s","i","c","_","n","a","m","e">>, <<"h","o","b","b","y">>, <<"a","u","t","h","o","r">>, <<"z","z","z">>}

\* C15: get_personal_info(k) answers by the first of three rules that applies:
\* the top-level entry named k, the full dotted path, the legacy scan of the
\* children of the categories.  A dotted key whose path cannot be walked to
\* its end is not answered by a shorter prefix of the path, and a key that no
\* rule answers gives found = false with no value.
C15_ResolutionOrder ==
  \A key \in QueryKeys :
     LET r == Resolved(memory_data.personal_info, key)
     IN get_personal_info(memory_data, key) =
          [kind |-> "item", value |-> r.value, found |-> r.found]

\* book.author was stored as a leaf: the path book.author.x stops at it and
\* finds nothing, while name is answered by the legacy scan
C15_Witness ==
  /\ StoredLast /\ last.key = <<"b","o","o","k",".","a","u","t","h","o","r">>
  /\ Holds(memory_data.personal_info, <<<<"b","o","o","k">>, <<"a","u","t","h","o","r">>>>, last.value)
  /\ get_personal_info(memory_data, <<"b","o","o","k",".","a","u","t","h","o","r",".","x">>) = [kind |-> "item", value |-> NoneValue, found |-> FALSE]
  /\ ~Has(memory_data.personal_info, <<"n","a","m","e">>)
  /\ get_personal_info(memory_data, <<"n","a","m","e">>).found

\* every path of names that leads to an entry of the tree
RECURSIVE Paths(_)
Paths(node) ==
  IF ~IsDict(node) THEN {}
  ELSE UNION {{<<node.items[i].key>>}
                \cup {<<node.items[i].key>> \o p : p \in Paths(node.items[i].val)} :
              i \in 1..Len(node.items)}

\* the entries of both trees that are not on the path and not below its leaf
\* are the same entries with the same values
SameOffPath(old, new, parts) ==
  \A q \in Paths(old) \cup Paths(new) :
     ~PrefixRelated(q, parts)
       => /\ Reaches(old, q) /\ Reaches(new, q)
          /\ NodeAt(old, q) = NodeAt(new, q)

\* every proper prefix of the path is a mapping in new; one that was not a
\* mapping in old holds nothing but the next part
PrefixesAreMappings(old, new, parts) ==
  \A i \in 1..(Len(parts) - 1) :
     /\ Reaches(new, SubSeq(parts, 1, i))
     /\ IsDict(NodeAt(new, SubSeq(parts, 1, i)))
     /\ (Reaches(old, SubSeq(parts, 1, i)) /\ ~IsDict(NodeAt(old, SubSeq(parts, 1, i))))
          => KeySet(NodeAt(new, SubSeq(parts, 1, i))) = {parts[i + 1]}

\* C16: a dotted-path store changes only the path it names. After
\* store_personal_info("p1.p2...pn", v) every proper prefix is a mapping, the
\* leaf at the full path holds v, an intermediate node that was not a mapping
\* has become a mapping that holds only the rest of the path, and every entry
\* off the path keeps its value.
C16_DottedStoreFrame ==
  [][(last'.op = "store_personal_info" /\ last'.status = "success" /\ HasDot(last'.key))
       => /\ PrefixesAreMappings(memory_data.personal_info, memory_data'.personal_info,
                                 Split(last'.key))
          /\ Reaches(memory_data'.personal_info, Split(last'.key))
          /\ NodeAt(memory_data'.personal_info, Split(last'.key)) = last'.value
          /\ SameOffPath(memory_data.personal_info, memory_data'.personal_info,
                         Split(last'.key))]_vars

\* misc was loaded as a value that is not a mapping; the first store, at
\* misc.book_author, replaced it and left career.job_title alone
C16_Witness ==
  /\ StoredLast /\ last.key = <<"m","i","s","c",".","b","o","o","k","_","a","u","t","h","o","r">> /\ clock = 1
  /\ Has(loaded, <<"m","i","s","c">>) /\ ~IsDict(Get(loaded, <<"m","i","s","c">>))
  /\ KeySet(Get(memory_data.personal_info, <<"m","i","s","c">>)) = {<<"b","o","o","k","_","a","u","t","h","o","r">>}
  /\ Holds(memory_data.personal_info, <<<<"m","i","s","c">>, <<"b","o","o","k","_","a","u","t","h","o","r">>>>, last.value)
  /\ Holds(memory_data.personal_info, <<<<"c","a","r","e","e","r">>, <<"j","o","b","_","t","i","t","l","e">>>>, V1)

\* C17: stored values survive a restart. A new storage constructed over the
\* file that a store has written still returns the stored value for the key,
\* and its personal_info is the tree that was persisted.
C17_SurvivesRestart ==
  [][(StoredLast /\ Returns(memory_data, last.key, last.value) /\ last'.op = "construct")
       => /\ Returns(memory_data', last.key, last.value)
          /\ memory_data'.personal_info = disk.doc.personal_info]_vars

====
